---- MODULE Spec2Model ----
(***************************************************************************)
(* Model of PluginManager (packages/reg-suit-core/src/plugin-manager.ts):  *)
(* the holder list, the raw and the replaced configuration documents, and  *)
(* the operations loadPlugins, createQuestions, initKeyGenerator,          *)
(* initPublisher and initNotifiers.  Every operation records what it       *)
(* returned, raised, logged and which init calls it made.                  *)
(***************************************************************************)
EXTENDS Integers, Sequences, FiniteSets, TLC

\* ------------------------------------------------------------------ bounds
MaxHolders == 3     \* longest holder list explored
MaxReq == 2         \* longest opt.pluginNames explored

\* ------------------------------------------------- the installed modules
\* What resolve.sync / require(pluginFileName)() yield for each plugin name.
Names == {"keygen", "allin", "pub", "mail", "missing"}

Resolvable(name) == name # "missing"

\* the names callers pass to createQuestions in opt.pluginNames
RequestableNames == {"keygen", "mail", "missing"}

ModuleExports(name) ==
  CASE name = "keygen" -> {"keyGenerator"}
    [] name = "allin"  -> {"keyGenerator", "publisher", "notifier"}
    [] name = "pub"    -> {"publisher", "preparer"}
    [] name = "mail"   -> {"notifier", "preparer"}
    [] OTHER           -> {}

\* ------------------------------------------------------ JavaScript values
\* kind is the JS type, val the payload (object identity, boolean 0/1,
\* string length), disabled the value of the property `disabled`.
Undef == [kind |-> "undefined", val |-> 0, disabled |-> "unset"]
NullV == [kind |-> "null", val |-> 0, disabled |-> "unset"]
BoolV(b) == [kind |-> "boolean", val |-> IF b THEN 1 ELSE 0, disabled |-> "unset"]
StrV(len) == [kind |-> "string", val |-> len, disabled |-> "unset"]
ObjV(id) == [kind |-> "object", val |-> id, disabled |-> "unset"]
ObjDisabledV(id, d) == [kind |-> "object", val |-> id, disabled |-> IF d THEN "true" ELSE "false"]

\* typeof v
TypeOf(v) == IF v.kind = "null" THEN "object" ELSE v.kind

\* ToBoolean(v), as used by `&&` and `!!`
Truthy(v) ==
  CASE v.kind = "undefined" -> FALSE
    [] v.kind = "null"      -> FALSE
    [] v.kind = "object"    -> TRUE
    [] OTHER                -> v.val # 0

\* ------------------------------------------------ configuration documents
\* A document has a core section and an optional plugins map; the map is a
\* key order (Object.keys) and a value per name (Undef for a missing key).
RECURSIVE PairValue(_, _, _)
PairValue(pairs, name, i) ==
  IF i = 0 THEN Undef
  ELSE IF pairs[i][1] = name THEN pairs[i][2]
  ELSE PairValue(pairs, name, i - 1)

Cfg(core, hasPlugins, pairs) ==
  [exists |-> TRUE, core |-> core, hasPlugins |-> hasPlugins,
   keys |-> [i \in 1..Len(pairs) |-> pairs[i][1]],
   vals |-> [n \in Names |-> PairValue(pairs, n, Len(pairs))]]

NoConfig ==
  [exists |-> FALSE, core |-> "none", hasPlugins |-> FALSE,
   keys |-> <<>>, vals |-> [n \in Names |-> Undef]]

RawConfigs ==
  { Cfg("rawCore", FALSE, <<>>),
    Cfg("rawCore", TRUE, <<>>),
    Cfg("rawCore", TRUE, << <<"mail", ObjV(1)>>, <<"pub", BoolV(TRUE)>> >>),
    Cfg("rawCore", TRUE, << <<"allin", ObjV(2)>>, <<"missing", ObjV(3)>>,
                            <<"mail", StrV(3)>>, <<"pub", NullV>> >>) }

ReplacedConfigs ==
  { Cfg("replacedCore", FALSE, <<>>),
    Cfg("replacedCore", TRUE,
        << <<"keygen", ObjV(10)>>, <<"pub", ObjV(11)>>,
           <<"mail", ObjDisabledV(13, TRUE)>>, <<"allin", ObjV(14)>> >>),
    Cfg("replacedCore", TRUE,
        << <<"keygen", ObjDisabledV(15, TRUE)>>, <<"allin", BoolV(TRUE)>>,
           <<"pub", BoolV(FALSE)>> >>),
    Cfg("replacedCore", TRUE,
        << <<"mail", ObjDisabledV(18, FALSE)>>, <<"allin", StrV(0)>> >>) }

\* ------------------------------------------------------------------ state
VARIABLES
  pluginHolders,    \* this._pluginHolders
  rawConfig,        \* this.rawConfig
  replacedConfig,   \* this.replacedConfig (NoConfig while unset)
  noEmit,           \* this._noEmit
  op,               \* the last operation called
  args,             \* the plugin names it was asked to load
  pre,              \* the holder list when it was called
  ret,              \* what it returned
  raised,           \* what it threw ("none" when it returned)
  logs,             \* the log lines it wrote
  inits,            \* the init calls it made
  resolved,         \* the names it passed to resolve.sync
  tracing,          \* whether the init calls of earlier operations are kept
  initialized       \* when tracing: the single-winner capabilities (key generator,
                    \* publisher) whose init the operations before the last called

vars == <<pluginHolders, rawConfig, replacedConfig, noEmit, op, args, pre, ret, raised, logs, inits,
          resolved, tracing, initialized>>

\* ------------------------------------------------------------- classifier
\* a classification by the first capability field found: a holder with a
\* key generator is no longer tested for a publisher
isPublisher_UnlessKeyGenerator(pluginHolder) ==
  "publisher" \in pluginHolder.caps /\ "keyGenerator" \notin pluginHolder.caps

isPublisher(pluginHolder) == "publisher" \in pluginHolder.caps

isKeyGenerator(pluginHolder) == "keyGenerator" \in pluginHolder.caps

isNotifier(pluginHolder) == "notifier" \in pluginHolder.caps

hasPreparer(pluginHolder) == "preparer" \in pluginHolder.caps

\* ------------------------------------------------------------------ values
\* The capability object ph[role] of a holder, and JS undefined in its place.
Capability(ph, role) == [holder |-> ph.uid, plugin |-> ph.moduleId, role |-> role]

Undefined == [holder |-> 0, plugin |-> "", role |-> "undefined"]

LogLine(level, msg, names, data) == [level |-> level, msg |-> msg, names |-> names, data |-> data]

ModuleIds(hs) == [i \in 1..Len(hs) |-> hs[i].moduleId]

\* ------------------------------------------------------------------ loader
\* a _loadPlugin that puts the new holder in front (unshift for push)
LoadPlugin_Unshift(hs, name) ==
  IF ~Resolvable(name)
  THEN [holders |-> hs, raised |-> "ResolveError",
        logs |-> << LogLine("error", "Failed to load plugin", <<name>>, Undef) >>]
  ELSE [holders |-> << [moduleId |-> name, caps |-> ModuleExports(name), uid |-> Len(hs) + 1] >> \o hs,
        raised |-> "none", logs |-> <<>>]

\* _loadPlugin(name) on holder list hs
LoadPlugin(hs, name) ==
  IF ~Resolvable(name)
  THEN [holders |-> hs, raised |-> "ResolveError",
        logs |-> << LogLine("error", "Failed to load plugin", <<name>>, Undef) >>]
  ELSE [holders |-> Append(hs, [moduleId |-> name, caps |-> ModuleExports(name), uid |-> Len(hs) + 1]),
        raised |-> "none", logs |-> <<>>]

\* a loop that goes on to the remaining names after a failed resolution
RECURSIVE LoadEach_ContinueAfterError(_, _, _)
LoadEach_ContinueAfterError(hs, names, i) ==
  IF i > Len(names) THEN [holders |-> hs, raised |-> "none", logs |-> <<>>, resolved |-> names]
  ELSE LET r == LoadPlugin(hs, names[i]) IN
       IF r.raised # "none"
       THEN [holders |-> LoadEach_ContinueAfterError(hs, names, i + 1).holders,
             raised |-> r.raised, logs |-> r.logs, resolved |-> names]
       ELSE LoadEach_ContinueAfterError(r.holders, names, i + 1)

\* names.forEach(name => this._loadPlugin(name)): a throw ends the loop
RECURSIVE LoadEach(_, _, _)
LoadEach(hs, names, i) ==
  IF i > Len(names) THEN [holders |-> hs, raised |-> "none", logs |-> <<>>, resolved |-> names]
  ELSE LET r == LoadPlugin(hs, names[i]) IN
       IF r.raised # "none"
       THEN [holders |-> r.holders, raised |-> r.raised, logs |-> r.logs,
             resolved |-> SubSeq(names, 1, i)]
       ELSE LoadEach(r.holders, names, i + 1)

\* ------------------------------------------------------------- initializer
\* a lookup that tests the presence of the key, not the truth of its value
PluginSpecifiedOption_AnyEntry(replacedConf, moduleId) ==
  IF replacedConf.hasPlugins /\ replacedConf.vals[moduleId].kind # "undefined"
  THEN replacedConf.vals[moduleId]
  ELSE ObjDisabledV(0, TRUE)

\* a lookup that leaves a plugin without an entry enabled, with no options
PluginSpecifiedOption_AbsentEnabled(replacedConf, moduleId) ==
  IF replacedConf.hasPlugins /\ Truthy(replacedConf.vals[moduleId])
  THEN replacedConf.vals[moduleId]
  ELSE ObjV(0)

\* lines 158-163: the option value _initPlugin resolves for a plugin
PluginSpecifiedOption(replacedConf, moduleId) ==
  IF replacedConf.hasPlugins /\ Truthy(replacedConf.vals[moduleId])
  THEN replacedConf.vals[moduleId]
  ELSE ObjDisabledV(0, TRUE)

\* an init context that leaves the dry-run flag out
InitCall_NoEmitDropped(rc, ne, targetPlugin, metadata, option) ==
  [target |-> targetPlugin,
   context |-> [coreConfig |-> rc.core, logger |-> metadata.moduleId,
                options |-> option, noEmit |-> FALSE]]

InitCall(rc, ne, targetPlugin, metadata, option) ==
  [target |-> targetPlugin,
   context |-> [coreConfig |-> rc.core, logger |-> metadata.moduleId,
                options |-> option, noEmit |-> ne]]

\* an _initPlugin that never looks at the disabled flag
InitPlugin_IgnoreDisabled(rc, ne, targetPlugin, metadata) ==
  IF ~rc.exists
  THEN [ret |-> Undefined, raised |-> "InvalidState", logs |-> <<>>, inits |-> <<>>]
  ELSE LET pluginSpecifiedOption == PluginSpecifiedOption(rc, metadata.moduleId) IN
       [ret |-> targetPlugin, raised |-> "none",
        logs |-> << LogLine("verbose", "is inialized with", <<metadata.moduleId>>, pluginSpecifiedOption) >>,
        inits |-> << InitCall(rc, ne, targetPlugin, metadata, pluginSpecifiedOption) >>]

\* an _initPlugin without the "Invalid state" check: a missing document
\* is read as one without a plugins map
InitPlugin_NoStateCheck(rc, ne, targetPlugin, metadata) ==
  LET pluginSpecifiedOption == PluginSpecifiedOption(rc, metadata.moduleId) IN
  IF pluginSpecifiedOption.disabled = "true"
  THEN [ret |-> Undefined, raised |-> "none",
        logs |-> << LogLine("verbose", "is disabled", <<metadata.moduleId>>, Undef) >>,
        inits |-> <<>>]
  ELSE [ret |-> targetPlugin, raised |-> "none",
        logs |-> << LogLine("verbose", "is inialized with", <<metadata.moduleId>>, pluginSpecifiedOption) >>,
        inits |-> << InitCall(rc, ne, targetPlugin, metadata, pluginSpecifiedOption) >>]

\* _initPlugin(targetPlugin, metadata)
InitPlugin(rc, ne, targetPlugin, metadata) ==
  IF ~rc.exists
  THEN [ret |-> Undefined, raised |-> "InvalidState", logs |-> <<>>, inits |-> <<>>]
  ELSE LET pluginSpecifiedOption == PluginSpecifiedOption(rc, metadata.moduleId) IN
       IF pluginSpecifiedOption.disabled = "true"
       THEN [ret |-> Undefined, raised |-> "none",
             logs |-> << LogLine("verbose", "is disabled", <<metadata.moduleId>>, Undef) >>,
             inits |-> <<>>]
       ELSE [ret |-> targetPlugin, raised |-> "none",
             logs |-> << LogLine("verbose", "is inialized with", <<metadata.moduleId>>, pluginSpecifiedOption) >>,
             inits |-> << InitCall(rc, ne, targetPlugin, metadata, pluginSpecifiedOption) >>]

\* an initKeyGenerator that settles a conflict by taking the last candidate
InitKeyGeneratorOp_PickLast(hs, rc, ne) ==
  LET metadata == SelectSeq(hs, isKeyGenerator) IN
  IF Len(metadata) = 0
  THEN [ret |-> Undefined, raised |-> "none",
        logs |-> << LogLine("verbose", "No key generator plugin.", <<>>, Undef) >>, inits |-> <<>>]
  ELSE InitPlugin(rc, ne, Capability(metadata[Len(metadata)], "keyGenerator"), metadata[Len(metadata)])

\* an initKeyGenerator that settles a conflict by taking the first candidate
InitKeyGeneratorOp_PickFirst(hs, rc, ne) ==
  LET metadata == SelectSeq(hs, isKeyGenerator) IN
  IF Len(metadata) = 0
  THEN [ret |-> Undefined, raised |-> "none",
        logs |-> << LogLine("verbose", "No key generator plugin.", <<>>, Undef) >>, inits |-> <<>>]
  ELSE InitPlugin(rc, ne, Capability(metadata[1], "keyGenerator"), metadata[1])

\* initKeyGenerator()
InitKeyGeneratorOp(hs, rc, ne) ==
  LET metadata == SelectSeq(hs, isKeyGenerator) IN
  IF Len(metadata) = 0
  THEN [ret |-> Undefined, raised |-> "none",
        logs |-> << LogLine("verbose", "No key generator plugin.", <<>>, Undef) >>, inits |-> <<>>]
  ELSE IF Len(metadata) > 1
  THEN [ret |-> Undefined, raised |-> "none",
        logs |-> << LogLine("warn", "2 or more key generator plugins are found. Select one of",
                            ModuleIds(metadata), Undef) >>,
        inits |-> <<>>]
  ELSE InitPlugin(rc, ne, Capability(metadata[1], "keyGenerator"), metadata[1])

\* initPublisher()
InitPublisherOp(hs, rc, ne) ==
  LET metadata == SelectSeq(hs, isPublisher) IN
  IF Len(metadata) = 0
  THEN [ret |-> Undefined, raised |-> "none",
        logs |-> << LogLine("verbose", "No publisher plugin.", <<>>, Undef) >>, inits |-> <<>>]
  ELSE IF Len(metadata) > 1
  THEN [ret |-> Undefined, raised |-> "none",
        logs |-> << LogLine("warn", "2 or more publisher plugins are found. Select one of",
                            ModuleIds(metadata), Undef) >>,
        inits |-> <<>>]
  ELSE InitPlugin(rc, ne, Capability(metadata[1], "publisher"), metadata[1])

\* a loop that a disabled notifier ends
RECURSIVE NotifierEach_StopAtDisabled(_, _, _, _, _)
NotifierEach_StopAtDisabled(metadata, i, rc, ne, acc) ==
  IF i > Len(metadata) THEN acc
  ELSE LET r == InitPlugin(rc, ne, Capability(metadata[i], "notifier"), metadata[i]) IN
       IF r.raised # "none"
       THEN [ret |-> <<>>, raised |-> r.raised, logs |-> acc.logs \o r.logs, inits |-> acc.inits \o r.inits]
       ELSE IF r.ret = Undefined
       THEN [ret |-> acc.ret, raised |-> "none", logs |-> acc.logs \o r.logs, inits |-> acc.inits]
       ELSE NotifierEach_StopAtDisabled(metadata, i + 1, rc, ne,
              [ret |-> Append(acc.ret, r.ret),
               raised |-> "none", logs |-> acc.logs \o r.logs, inits |-> acc.inits \o r.inits])

\* metadata.forEach(ph => { np = _initPlugin(...); np && notifiers.push(np) })
RECURSIVE NotifierEach(_, _, _, _, _)
NotifierEach(metadata, i, rc, ne, acc) ==
  IF i > Len(metadata) THEN acc
  ELSE LET r == InitPlugin(rc, ne, Capability(metadata[i], "notifier"), metadata[i]) IN
       IF r.raised # "none"
       THEN [ret |-> <<>>, raised |-> r.raised, logs |-> acc.logs \o r.logs, inits |-> acc.inits \o r.inits]
       ELSE NotifierEach(metadata, i + 1, rc, ne,
              [ret |-> IF r.ret # Undefined THEN Append(acc.ret, r.ret) ELSE acc.ret,
               raised |-> "none", logs |-> acc.logs \o r.logs, inits |-> acc.inits \o r.inits])

\* initNotifiers()
InitNotifiersOp(hs, rc, ne) ==
  LET metadata == SelectSeq(hs, isNotifier) IN
  IF Len(metadata) = 0
  THEN [ret |-> <<>>, raised |-> "none",
        logs |-> << LogLine("verbose", "No notifier plugin.", <<>>, Undef) >>, inits |-> <<>>]
  ELSE NotifierEach(metadata, 1, rc, ne, [ret |-> <<>>, raised |-> "none", logs |-> <<>>, inits |-> <<>>])

\* -------------------------------------------------------- setup negotiator
\* a configured field that passes on any truthy value, structured or not
Configured_NoTypeCheck(config, name) ==
  IF config.hasPlugins /\ Truthy(config.vals[name]) THEN config.vals[name] ELSE NullV

\* line 79: the configured field of a preparer's entry
Configured(config, name) ==
  IF config.hasPlugins /\ TypeOf(config.vals[name]) = "object" THEN config.vals[name] ELSE NullV

\* a trivial entry that carries the raw document's options like a preparer's
TrivialEntry_ConfiguredFromRaw(h) ==
  [name |-> h.moduleId, holder |-> h.uid, questions |-> "none", prepare |-> "resolveTrue",
   prepareCoreConfig |-> "none", prepareNoEmit |-> FALSE, configured |-> Configured(rawConfig, h.moduleId)]

\* lines 63-70: the entry of a plugin without a preparer
TrivialEntry(h) ==
  [name |-> h.moduleId, holder |-> h.uid, questions |-> "none", prepare |-> "resolveTrue",
   prepareCoreConfig |-> "none", prepareNoEmit |-> FALSE, configured |-> NullV]

\* lines 71-88: the entry of a plugin with a preparer
PreparerEntry(h, config, ne) ==
  [name |-> h.moduleId, holder |-> h.uid, questions |-> "inquire", prepare |-> "preparer.prepare",
   prepareCoreConfig |-> config.core, prepareNoEmit |-> ne, configured |-> Configured(config, h.moduleId)]

\* entries with the preparer plugins first
QuestionEntries_PreparersFirst(hs, config, ne) ==
  LET noConfigurablePlugins == SelectSeq(hs, LAMBDA h : ~hasPreparer(h))
      preparerHolders == SelectSeq(hs, hasPreparer)
  IN [i \in 1..Len(preparerHolders) |-> PreparerEntry(preparerHolders[i], config, ne)]
     \o [i \in 1..Len(noConfigurablePlugins) |-> TrivialEntry(noConfigurablePlugins[i])]

\* lines 55-89: the entries built from the holder list
QuestionEntries(hs, config, ne) ==
  LET noConfigurablePlugins == SelectSeq(hs, LAMBDA h : ~hasPreparer(h))
      preparerHolders == SelectSeq(hs, hasPreparer)
  IN [i \in 1..Len(noConfigurablePlugins) |-> TrivialEntry(noConfigurablePlugins[i])]
     \o [i \in 1..Len(preparerHolders) |-> PreparerEntry(preparerHolders[i], config, ne)]

\* a createQuestions that reports only the plugins it was asked for
CreateQuestionsOp_RequestedOnly(hs, config, ne, pluginNames) ==
  LET l == LoadEach(hs, pluginNames, 1) IN
  IF l.raised # "none"
  THEN [holders |-> l.holders, ret |-> <<>>, raised |-> l.raised, logs |-> l.logs,
        resolved |-> l.resolved]
  ELSE [holders |-> l.holders,
        ret |-> QuestionEntries(SubSeq(l.holders, Len(hs) + 1, Len(l.holders)), config, ne),
        raised |-> "none", logs |-> l.logs, resolved |-> l.resolved]

\* createQuestions(opt)
CreateQuestionsOp(hs, config, ne, pluginNames) ==
  LET l == LoadEach(hs, pluginNames, 1) IN
  IF l.raised # "none"
  THEN [holders |-> l.holders, ret |-> <<>>, raised |-> l.raised, logs |-> l.logs,
        resolved |-> l.resolved]
  ELSE [holders |-> l.holders, ret |-> QuestionEntries(l.holders, config, ne),
        raised |-> "none", logs |-> l.logs, resolved |-> l.resolved]

\* a loadPlugins without the guard of line 43: Object.keys(undefined) throws
LoadPluginsOp_NoGuard(hs, config) ==
  IF ~config.hasPlugins
  THEN [holders |-> hs, raised |-> "TypeError", logs |-> <<>>, resolved |-> <<>>]
  ELSE LoadEach(hs, config.keys, 1)

\* loadPlugins()
LoadPluginsOp(hs, config) ==
  IF ~config.hasPlugins
  THEN [holders |-> hs, raised |-> "none", logs |-> <<>>, resolved |-> <<>>]
  ELSE LoadEach(hs, config.keys, 1)

\* an entry point that takes the plugins' options from the raw document
\* where it has any
RunInit_OptionsFromRaw(entryPoint, this) ==
  LET rc == [this.replacedConfig EXCEPT
               !.vals = [n \in Names |->
                           IF this.rawConfig.hasPlugins /\ this.rawConfig.vals[n].kind # "undefined"
                           THEN this.rawConfig.vals[n] ELSE this.replacedConfig.vals[n]]]
  IN CASE entryPoint = "initKeyGenerator" -> InitKeyGeneratorOp(this.pluginHolders, rc, this.noEmit)
       [] entryPoint = "initPublisher"    -> InitPublisherOp(this.pluginHolders, rc, this.noEmit)
       [] OTHER                           -> InitNotifiersOp(this.pluginHolders, rc, this.noEmit)

\* an init* entry point called on a registry instance
RunInit(entryPoint, this) ==
  CASE entryPoint = "initKeyGenerator" ->
         InitKeyGeneratorOp(this.pluginHolders, this.replacedConfig, this.noEmit)
    [] entryPoint = "initPublisher" ->
         InitPublisherOp(this.pluginHolders, this.replacedConfig, this.noEmit)
    [] OTHER ->
         InitNotifiersOp(this.pluginHolders, this.replacedConfig, this.noEmit)

\* ---------------------------------------------------------------- actions
RECURSIVE SeqsUpTo(_, _)
SeqsUpTo(S, n) ==
  IF n = 0 THEN { <<>> }
  ELSE LET shorter == SeqsUpTo(S, n - 1) IN
       shorter \cup { Append(s, x) : s \in shorter, x \in S }

Init ==
  /\ pluginHolders = <<>>
  /\ rawConfig \in RawConfigs
  /\ replacedConfig = NoConfig
  /\ noEmit \in BOOLEAN
  /\ op = "none"
  /\ args = <<>>
  /\ pre = <<>>
  /\ ret = Undefined
  /\ raised = "none"
  /\ logs = <<>>
  /\ inits = <<>>
  /\ resolved = <<>>
  /\ tracing = FALSE
  /\ initialized = {}

\* a registry whose init calls are traced, over the raw document that names
\* plugins with a key generator and a publisher
InitTraced ==
  /\ pluginHolders = <<>>
  /\ rawConfig \in { c \in RawConfigs : c.hasPlugins /\ c.vals["allin"].kind # "undefined" }
  /\ replacedConfig = NoConfig
  /\ noEmit = FALSE
  /\ op = "none"
  /\ args = <<>>
  /\ pre = <<>>
  /\ ret = Undefined
  /\ raised = "none"
  /\ logs = <<>>
  /\ inits = <<>>
  /\ resolved = <<>>
  /\ tracing = TRUE
  /\ initialized = {}

\* the registry instance: the fields of PluginManager
This ==
  [pluginHolders |-> pluginHolders, rawConfig |-> rawConfig,
   replacedConfig |-> replacedConfig, noEmit |-> noEmit]

\* the single-winner capabilities whose init has been called once the last
\* operation is over
EverInitialized ==
  IF tracing
  THEN initialized \cup
         { inits[i].target : i \in { k \in 1..Len(inits) : inits[k].target.role # "notifier" } }
  ELSE {}

\* the owner assigns this.replacedConfig
SetReplacedConfig ==
  /\ \E c \in ReplacedConfigs :
       /\ c # replacedConfig
       /\ replacedConfig' = c
  /\ op' = "setReplacedConfig"
  /\ args' = <<>>
  /\ pre' = pluginHolders
  /\ ret' = Undefined
  /\ raised' = "none"
  /\ logs' = <<>>
  /\ inits' = <<>>
  /\ resolved' = <<>>
  /\ initialized' = EverInitialized
  /\ UNCHANGED tracing
  /\ UNCHANGED <<pluginHolders, rawConfig, noEmit>>

LoadPlugins ==
  /\ LET r == LoadPluginsOp(pluginHolders, rawConfig) IN
       /\ Len(r.holders) <= MaxHolders
       /\ pluginHolders' = r.holders
       /\ raised' = r.raised
       /\ logs' = r.logs
       /\ resolved' = r.resolved
  /\ op' = "loadPlugins"
  /\ args' = IF rawConfig.hasPlugins THEN rawConfig.keys ELSE <<>>
  /\ pre' = pluginHolders
  /\ ret' = Undefined
  /\ inits' = <<>>
  /\ initialized' = EverInitialized
  /\ UNCHANGED tracing
  /\ UNCHANGED <<rawConfig, replacedConfig, noEmit>>

\* the values of opt.pluginNames tried. The loop of line 54 ends at the first
\* name that does not resolve and never reads the names behind it, so one
\* name stands for them all there.
PluginNamesArgs ==
  { names \in SeqsUpTo(RequestableNames, MaxReq) :
      \A i \in 1..Len(names) :
         ~Resolvable(names[i]) => \A j \in (i + 1)..Len(names) : names[j] = "keygen" }

CreateQuestions ==
  /\ \E pluginNames \in PluginNamesArgs :
       /\ LET r == CreateQuestionsOp(pluginHolders, rawConfig, noEmit, pluginNames) IN
            /\ Len(r.holders) <= MaxHolders
            /\ pluginHolders' = r.holders
            /\ ret' = r.ret
            /\ raised' = r.raised
            /\ logs' = r.logs
            /\ resolved' = r.resolved
       /\ args' = pluginNames
  /\ op' = "createQuestions"
  /\ pre' = pluginHolders
  /\ inits' = <<>>
  /\ initialized' = EverInitialized
  /\ UNCHANGED tracing
  /\ UNCHANGED <<rawConfig, replacedConfig, noEmit>>

InitKeyGenerator ==
  /\ LET r == RunInit("initKeyGenerator", This) IN
       /\ ret' = r.ret
       /\ raised' = r.raised
       /\ logs' = r.logs
       /\ inits' = r.inits
  /\ op' = "initKeyGenerator"
  /\ args' = <<>>
  /\ pre' = pluginHolders
  /\ resolved' = <<>>
  /\ initialized' = EverInitialized
  /\ UNCHANGED tracing
  /\ UNCHANGED <<pluginHolders, rawConfig, replacedConfig, noEmit>>

InitPublisher ==
  /\ LET r == RunInit("initPublisher", This) IN
       /\ ret' = r.ret
       /\ raised' = r.raised
       /\ logs' = r.logs
       /\ inits' = r.inits
  /\ op' = "initPublisher"
  /\ args' = <<>>
  /\ pre' = pluginHolders
  /\ resolved' = <<>>
  /\ initialized' = EverInitialized
  /\ UNCHANGED tracing
  /\ UNCHANGED <<pluginHolders, rawConfig, replacedConfig, noEmit>>

InitNotifiers ==
  /\ LET r == RunInit("initNotifiers", This) IN
       /\ ret' = r.ret
       /\ raised' = r.raised
       /\ logs' = r.logs
       /\ inits' = r.inits
  /\ op' = "initNotifiers"
  /\ args' = <<>>
  /\ pre' = pluginHolders
  /\ resolved' = <<>>
  /\ initialized' = EverInitialized
  /\ UNCHANGED tracing
  /\ UNCHANGED <<pluginHolders, rawConfig, replacedConfig, noEmit>>

Next ==
  \/ SetReplacedConfig
  \/ LoadPlugins
  \/ CreateQuestions
  \/ InitKeyGenerator
  \/ InitPublisher
  \/ InitNotifiers

Spec == Init /\ [][Next]_vars

SpecTraced == InitTraced /\ [][Next]_vars

\* ------------------------------------------------------------------ claims
InitOps == {"initKeyGenerator", "initPublisher", "initNotifiers"}

LoadOps == {"loadPlugins", "createQuestions"}

\* the holders of the current list that expose a capability field
Candidates(role) == SelectSeq(pluginHolders, LAMBDA h : role \in h.caps)

\* the replaced document maps the name to an object carrying disabled: true
MarkedDisabled(n) ==
  /\ replacedConfig.exists
  /\ replacedConfig.hasPlugins
  /\ replacedConfig.vals[n].kind = "object"
  /\ replacedConfig.vals[n].disabled = "true"

\* the replaced document has no entry for the name
AbsentFromReplaced(n) ==
  /\ replacedConfig.exists
  /\ (~replacedConfig.hasPlugins \/ replacedConfig.vals[n].kind = "undefined")

\* the replaced document holds a usable entry for the name that is not marked
\* disabled (a missing entry and an empty value such as false or "" are not)
EnabledInReplaced(n) ==
  /\ replacedConfig.exists
  /\ replacedConfig.hasPlugins
  /\ replacedConfig.vals[n].kind \notin {"undefined", "null"}
  /\ (replacedConfig.vals[n].kind \in {"boolean", "string", "number"} => replacedConfig.vals[n].val # 0)
  /\ replacedConfig.vals[n].disabled # "true"

Outcome == [ret |-> ret, raised |-> raised, logs |-> logs, inits |-> inits]

RefusesToGuess(opName, role, msg) ==
  (op = opName /\ Len(Candidates(role)) >= 2) =>
     /\ raised = "none"
     /\ ret = Undefined
     /\ inits = <<>>
     /\ logs = << LogLine("warn", msg, ModuleIds(Candidates(role)), Undef) >>

\* C1: when two or more loaded holders expose a single-winner capability,
\* initKeyGenerator / initPublisher returns nothing, calls no init and logs
\* exactly one warning listing all candidates' names in holder-list order,
\* whatever the replaced configuration is.
C1_ConflictActivatesNothing ==
  /\ RefusesToGuess("initKeyGenerator", "keyGenerator",
                    "2 or more key generator plugins are found. Select one of")
  /\ RefusesToGuess("initPublisher", "publisher",
                    "2 or more publisher plugins are found. Select one of")

C1_Witness ==
  /\ op = "initKeyGenerator"
  /\ Len(Candidates("keyGenerator")) >= 2
  /\ Candidates("keyGenerator")[1].moduleId # Candidates("keyGenerator")[2].moduleId
  /\ EnabledInReplaced(Candidates("keyGenerator")[1].moduleId)
  /\ MarkedDisabled(Candidates("keyGenerator")[2].moduleId)

\* C2: a plugin whose replaced entry is {disabled: true} never has init
\* called on any of its capabilities by an init* call, and no init* call
\* returns one of its capabilities.
C2_DisabledNeverInitialized ==
  \A n \in Names : MarkedDisabled(n) =>
     /\ \A i \in 1..Len(inits) : inits[i].target.plugin # n
     /\ (op \in {"initKeyGenerator", "initPublisher"} => ret.plugin # n)
     /\ (op = "initNotifiers" => \A i \in 1..Len(ret) : ret[i].plugin # n)

C2_Witness ==
  /\ op = "initNotifiers"
  /\ Len(inits) >= 1
  /\ \E i \in 1..Len(pluginHolders) :
        /\ isNotifier(pluginHolders[i])
        /\ MarkedDisabled(pluginHolders[i].moduleId)
        /\ LogLine("verbose", "is disabled", <<pluginHolders[i].moduleId>>, Undef) \in
             { logs[k] : k \in 1..Len(logs) }

\* the shared activation procedure is reached by the last init* call
ActivationReached ==
  \/ op = "initKeyGenerator" /\ Len(Candidates("keyGenerator")) = 1
  \/ op = "initPublisher" /\ Len(Candidates("publisher")) = 1
  \/ op = "initNotifiers" /\ Len(Candidates("notifier")) >= 1

\* C3 as stated: an init* call made while the replaced document does not
\* exist always raises and calls no init.
C3_AlwaysFatalWithoutReplaced ==
  (op \in InitOps /\ ~replacedConfig.exists) => (raised = "InvalidState" /\ inits = <<>>)

\* C3 amended: without the replaced document an init* call calls no init and
\* raises exactly when it reaches the shared activation procedure (one
\* candidate for a single-winner role, at least one notifier); an init* call
\* never raises while the replaced document exists.
C3_FatalWhenActivationReached ==
  op \in InitOps =>
     /\ (~replacedConfig.exists => inits = <<>>)
     /\ (raised = "InvalidState" <=> (~replacedConfig.exists /\ ActivationReached))
     /\ raised \in {"none", "InvalidState"}

C3_Witness ==
  /\ op = "initNotifiers"
  /\ ~replacedConfig.exists
  /\ Len(Candidates("notifier")) >= 2
  /\ raised = "InvalidState"

\* C4 as stated: the holder list holds at most one holder per plugin name.
C4_UniqueNames ==
  \A i, j \in 1..Len(pluginHolders) :
     pluginHolders[i].moduleId = pluginHolders[j].moduleId => i = j

\* the notifier capabilities initNotifiers is expected to hand back
EnabledNotifiers ==
  LET hs == SelectSeq(pluginHolders, LAMBDA h : isNotifier(h) /\ EnabledInReplaced(h.moduleId))
  IN [i \in 1..Len(hs) |-> Capability(hs[i], "notifier")]

\* C5: initNotifiers returns exactly the notifier capabilities of the loaded
\* notifier holders that are enabled in the replaced configuration, in
\* holder-list order, each having had init called once during the call; a
\* disabled notifier does not keep a sibling from being initialized.
C5_NotifiersEnabledInOrder ==
  (op = "initNotifiers" /\ replacedConfig.exists) =>
     /\ raised = "none"
     /\ ret = EnabledNotifiers
     /\ [i \in 1..Len(inits) |-> inits[i].target] = ret

C5_Witness ==
  /\ op = "initNotifiers"
  /\ Len(ret) = 2
  /\ Len(Candidates("notifier")) = 3
  /\ MarkedDisabled(Candidates("notifier")[1].moduleId)
  /\ ret[1].holder < ret[2].holder

\* the replaced document with an explicit {disabled: true} for the name
WithDisabled(c, n) == [c EXCEPT !.hasPlugins = TRUE, !.vals[n] = ObjDisabledV(99, TRUE)]

\* C6: for a plugin absent from the replaced plugins map (or when the map is
\* absent), every init* call gives the outcome (return value, init calls,
\* log lines) it gives when the map holds {disabled: true} for that plugin.
C6_AbsentSameAsDisabled ==
  \A n \in Names : AbsentFromReplaced(n) =>
     /\ (op = "initKeyGenerator" =>
           Outcome = InitKeyGeneratorOp(pluginHolders, WithDisabled(replacedConfig, n), noEmit))
     /\ (op = "initPublisher" =>
           Outcome = InitPublisherOp(pluginHolders, WithDisabled(replacedConfig, n), noEmit))
     /\ (op = "initNotifiers" =>
           Outcome = InitNotifiersOp(pluginHolders, WithDisabled(replacedConfig, n), noEmit))

C6_Witness ==
  /\ op = "initNotifiers"
  /\ Len(ret) >= 1
  /\ \E i \in 1..Len(pluginHolders) :
        /\ isNotifier(pluginHolders[i])
        /\ replacedConfig.hasPlugins
        /\ AbsentFromReplaced(pluginHolders[i].moduleId)
        /\ LogLine("verbose", "is disabled", <<pluginHolders[i].moduleId>>, Undef) \in
             { logs[k] : k \in 1..Len(logs) }

\* C7 as stated: createQuestions returns as many entries as names requested,
\* whatever was loaded before.
C7_LengthIsRequested ==
  (op = "createQuestions" /\ raised = "none") => Len(ret) = Len(args)

\* C7 amended: createQuestions returns one entry per holder of the holder
\* list after the call, that is the holders loaded before the call plus one
\* per requested name; it equals the number requested only when the holder
\* list was empty before the call.
C7_LengthIsHolderList ==
  (op = "createQuestions" /\ raised = "none") =>
     /\ Len(ret) = Len(pluginHolders)
     /\ Len(ret) = Len(pre) + Len(args)

C7_Witness ==
  /\ op = "createQuestions"
  /\ raised = "none"
  /\ Len(pre) >= 1
  /\ Len(args) >= 1

\* C8: in createQuestions' result every entry of a plugin without a preparer
\* precedes every entry of a plugin with one, and within each group the
\* entries are in holder-list order; every holder has exactly one entry.
C8_NonPreparersFirst ==
  (op = "createQuestions" /\ raised = "none") =>
     /\ \A i, j \in 1..Len(ret) :
          ("preparer" \notin ModuleExports(ret[i].name) /\ "preparer" \in ModuleExports(ret[j].name))
             => i < j
     /\ \A i, j \in 1..Len(ret) :
          (i < j /\ ("preparer" \in ModuleExports(ret[i].name) <=> "preparer" \in ModuleExports(ret[j].name)))
             => ret[i].holder < ret[j].holder
     /\ \A i \in 1..Len(ret) :
          /\ ret[i].holder \in 1..Len(pluginHolders)
          /\ pluginHolders[ret[i].holder].moduleId = ret[i].name
     /\ { ret[i].holder : i \in 1..Len(ret) } = 1..Len(pluginHolders)

C8_Witness ==
  /\ op = "createQuestions"
  /\ raised = "none"
  /\ Len(ret) = 3
  /\ hasPreparer(pluginHolders[1])
  /\ ~hasPreparer(pluginHolders[2])
  /\ hasPreparer(pluginHolders[3])
  /\ ret[1].holder = 2

HasUnresolvable(names) == \E k \in 1..Len(names) : ~Resolvable(names[k])

FirstUnresolvable(names) ==
  CHOOSE k \in 1..Len(names) : ~Resolvable(names[k]) /\ \A j \in 1..(k - 1) : Resolvable(names[j])

\* C9: when resolution fails for a name during loadPlugins / createQuestions,
\* the call logs an error naming it and raises; the holder list afterwards is
\* the list before the call followed by the holders of the names that came
\* before the failing one, and createQuestions returns no entries.
C9_ResolutionFailureAborts ==
  op \in LoadOps =>
     /\ (raised = "ResolveError" <=> HasUnresolvable(args))
     /\ (HasUnresolvable(args) =>
           LET k == FirstUnresolvable(args) IN
           /\ logs = << LogLine("error", "Failed to load plugin", <<args[k]>>, Undef) >>
           /\ Len(pluginHolders) = Len(pre) + (k - 1)
           /\ SubSeq(pluginHolders, 1, Len(pre)) = pre
           /\ ModuleIds(pluginHolders) = ModuleIds(pre) \o SubSeq(args, 1, k - 1)
           /\ (op = "createQuestions" => ret = <<>>))

C9_Witness ==
  /\ op = "loadPlugins"
  /\ raised = "ResolveError"
  /\ Len(pre) >= 1
  /\ Len(pluginHolders) = Len(pre) + 1
  /\ Len(args) >= 3

\* C10: a preparer entry's configured field is the value the raw document's
\* plugins map holds for the plugin when that value is an object, and null
\* when it is a boolean, a scalar or missing or the map is absent; the
\* replaced document plays no part.
C10_ConfiguredFromRaw ==
  (op = "createQuestions" /\ raised = "none") =>
     \A i \in 1..Len(ret) : "preparer" \in ModuleExports(ret[i].name) =>
        ret[i].configured =
          IF rawConfig.hasPlugins /\ rawConfig.vals[ret[i].name].kind = "object"
          THEN rawConfig.vals[ret[i].name]
          ELSE NullV

C10_Witness ==
  /\ op = "createQuestions"
  /\ raised = "none"
  /\ \E i, j \in 1..Len(ret) :
        /\ "preparer" \in ModuleExports(ret[i].name)
        /\ ret[i].configured.kind = "object"
        /\ replacedConfig.exists
        /\ replacedConfig.vals[ret[i].name].kind = "object"
        /\ replacedConfig.vals[ret[i].name] # ret[i].configured
        /\ "preparer" \in ModuleExports(ret[j].name)
        /\ rawConfig.vals[ret[j].name].kind = "boolean"
        /\ ret[j].configured = NullV

\* C11: with the raw plugins map absent or empty loadPlugins does nothing: it
\* resolves no module, raises nothing and leaves the holder list as it was.
C11_LoadPluginsNoOpWithoutPlugins ==
  (op = "loadPlugins" /\ (~rawConfig.hasPlugins \/ rawConfig.keys = <<>>)) =>
     /\ resolved = <<>>
     /\ raised = "none"
     /\ logs = <<>>
     /\ pluginHolders = pre

C11_Witness ==
  /\ op = "loadPlugins"
  /\ ~rawConfig.hasPlugins
  /\ Len(pre) >= 1
  /\ pluginHolders = pre

Roles == {"keyGenerator", "publisher", "notifier", "preparer"}

\* the holder list with every capability field but one taken away
OnlyRole(hs, role) == [i \in 1..Len(hs) |-> [hs[i] EXCEPT !.caps = hs[i].caps \cap {role}]]

\* C12: a holder is a candidate for exactly the roles whose capability field
\* it exposes, for every subset of the four fields, and what an entry point
\* does for its role is what it does when the holders expose no other field.
C12_ClassificationPerRole ==
  /\ \A S \in SUBSET Roles :
        LET h == [moduleId |-> "keygen", caps |-> S, uid |-> 1] IN
        /\ isKeyGenerator(h) <=> "keyGenerator" \in S
        /\ isPublisher(h) <=> "publisher" \in S
        /\ isNotifier(h) <=> "notifier" \in S
        /\ hasPreparer(h) <=> "preparer" \in S
  /\ (op = "initKeyGenerator" =>
        Outcome = InitKeyGeneratorOp(OnlyRole(pluginHolders, "keyGenerator"), replacedConfig, noEmit))
  /\ (op = "initPublisher" =>
        Outcome = InitPublisherOp(OnlyRole(pluginHolders, "publisher"), replacedConfig, noEmit))
  /\ (op = "initNotifiers" =>
        Outcome = InitNotifiersOp(OnlyRole(pluginHolders, "notifier"), replacedConfig, noEmit))
  /\ ((op = "createQuestions" /\ raised = "none") =>
        ret = QuestionEntries(OnlyRole(pluginHolders, "preparer"), rawConfig, noEmit))

C12_Witness ==
  /\ op = "initPublisher"
  /\ ret.role = "publisher"
  /\ Len(inits) = 1
  /\ {"keyGenerator", "publisher", "notifier"} \subseteq pluginHolders[ret.holder].caps
  /\ Len(Candidates("keyGenerator")) = 1
  /\ Candidates("keyGenerator")[1].uid = ret.holder

\* C13: over any sequence of init* calls on one registry, the same entry
\* point called twice included, no capability has init called a second time.
C13_InitAtMostOnce ==
  \A i \in 1..Len(inits) : inits[i].target \notin initialized

\* the init call the shared activation procedure makes for a holder's capability
ExpectedInit(h, role) ==
  [target |-> Capability(h, role),
   context |-> [coreConfig |-> replacedConfig.core, logger |-> h.moduleId,
                options |-> replacedConfig.vals[h.moduleId], noEmit |-> noEmit]]

ActivatesTheOnlyCandidate(opName, role) ==
  (/\ op = opName
   /\ Len(Candidates(role)) = 1
   /\ EnabledInReplaced(Candidates(role)[1].moduleId)) =>
     /\ raised = "none"
     /\ ret = Capability(Candidates(role)[1], role)
     /\ inits = << ExpectedInit(Candidates(role)[1], role) >>

\* C14: with exactly one candidate whose replaced entry is enabled,
\* initKeyGenerator / initPublisher calls its init once, with the replaced
\* core section, that entry as options and the registry's dry-run flag, and
\* returns the capability.
C14_SingleCandidateActivated ==
  /\ ActivatesTheOnlyCandidate("initKeyGenerator", "keyGenerator")
  /\ ActivatesTheOnlyCandidate("initPublisher", "publisher")

C14_Witness ==
  /\ op = "initPublisher"
  /\ Len(Candidates("publisher")) = 1
  /\ Len(pluginHolders) >= 2
  /\ noEmit
  /\ Len(inits) = 1
  /\ inits[1].context.options.kind = "object"
  /\ ret = inits[1].target

\* C15: over any interleaving of loads and init* calls at most one key
\* generator holder and at most one publisher holder is ever initialized, and
\* with two or more candidates loaded the entry point initializes nothing.
C15_AtMostOneWinnerEver ==
  /\ Cardinality({ c \in EverInitialized : c.role = "keyGenerator" }) <= 1
  /\ Cardinality({ c \in EverInitialized : c.role = "publisher" }) <= 1
  /\ ((op = "initKeyGenerator" /\ Len(Candidates("keyGenerator")) >= 2) => inits = <<>>)
  /\ ((op = "initPublisher" /\ Len(Candidates("publisher")) >= 2) => inits = <<>>)

C15_Witness ==
  /\ tracing
  /\ op = "initKeyGenerator"
  /\ Len(Candidates("keyGenerator")) >= 2
  /\ EnabledInReplaced(Candidates("keyGenerator")[2].moduleId)
  /\ inits = <<>>
  /\ \E c \in initialized : c.role = "keyGenerator" /\ c.holder = Candidates("keyGenerator")[1].uid

\* C16: an init* call on a registry with the same holder list, replaced
\* document and dry-run flag but another raw document has the same outcome
\* (return value, init calls with their contexts, log lines).
C16_InitIgnoresRaw ==
  op \in InitOps =>
     \A raw \in RawConfigs : RunInit(op, [This EXCEPT !.rawConfig = raw]) = Outcome

C16_Witness ==
  /\ op = "initNotifiers"
  /\ Len(inits) >= 1
  /\ rawConfig.hasPlugins
  /\ rawConfig.vals[inits[1].target.plugin].kind # "undefined"
  /\ rawConfig.vals[inits[1].target.plugin] # inits[1].context.options
  /\ rawConfig.core # inits[1].context.coreConfig

\* the replaced document holds an entry of any kind for the name that does
\* not carry disabled: true
PresentNotMarkedDisabled(n) ==
  /\ replacedConfig.exists
  /\ replacedConfig.hasPlugins
  /\ replacedConfig.vals[n].kind # "undefined"
  /\ replacedConfig.vals[n].disabled # "true"

InitTargets == { inits[i].target : i \in 1..Len(inits) }

\* the holders the last init* call ran the shared activation procedure on
Activated(role) ==
  { i \in 1..Len(pluginHolders) : Capability(pluginHolders[i], role) \in InitTargets }

Reached(role) ==
  IF role = "notifier" \/ Len(Candidates(role)) = 1
  THEN { i \in 1..Len(pluginHolders) : role \in pluginHolders[i].caps }
  ELSE {}

RoleOf(opName) ==
  CASE opName = "initKeyGenerator" -> "keyGenerator"
    [] opName = "initPublisher" -> "publisher"
    [] OTHER -> "notifier"

\* C17 as stated: the activation procedure initializes a plugin exactly when
\* the replaced map has an entry for it, of any kind, without disabled: true.
C17_AnyEntryEnables ==
  (op \in InitOps /\ replacedConfig.exists) =>
     Activated(RoleOf(op)) =
       { i \in Reached(RoleOf(op)) : PresentNotMarkedDisabled(pluginHolders[i].moduleId) }

\* C17 amended: the activation procedure initializes a plugin exactly when
\* the replaced map has a truthy entry for it without disabled: true; a
\* missing entry, an empty value (false, "", 0, null) or disabled: true
\* prevents activation.
C17_TruthyEntryEnables ==
  (op \in InitOps /\ replacedConfig.exists) =>
     Activated(RoleOf(op)) =
       { i \in Reached(RoleOf(op)) : EnabledInReplaced(pluginHolders[i].moduleId) }

C17_Witness ==
  /\ op = "initNotifiers"
  /\ \E i, j \in Reached("notifier") :
        /\ i \in Activated("notifier")
        /\ j \notin Activated("notifier")
        /\ PresentNotMarkedDisabled(pluginHolders[j].moduleId)
        /\ replacedConfig.vals[pluginHolders[i].moduleId].disabled = "false"

\* C18: the holder list only grows at its end and only by loadPlugins /
\* createQuestions, which append the new holders in the order of the names
\* requested; the init* calls leave it unchanged.
C18_HolderListAppendOnly ==
  [][ /\ Len(pluginHolders') >= Len(pluginHolders)
      /\ SubSeq(pluginHolders', 1, Len(pluginHolders)) = pluginHolders
      /\ (pluginHolders' # pluginHolders => op' \in LoadOps)
      /\ (op' \in InitOps => pluginHolders' = pluginHolders)
      /\ (op' \in LoadOps =>
            ModuleIds(SubSeq(pluginHolders', Len(pluginHolders) + 1, Len(pluginHolders')))
              = SubSeq(args', 1, Len(pluginHolders') - Len(pluginHolders))) ]_vars

C18_Witness ==
  /\ op = "loadPlugins"
  /\ raised = "none"
  /\ Len(pre) >= 1
  /\ Len(pluginHolders) = Len(pre) + 2

RawObject(n) == rawConfig.hasPlugins /\ rawConfig.vals[n].kind = "object"

\* C19 as stated: every entry, a non-preparer's too, carries the raw
\* document's options object for its plugin, and null when there is none.
C19_EveryEntryConfigured ==
  (op = "createQuestions" /\ raised = "none") =>
     \A i \in 1..Len(ret) :
        ret[i].configured = IF RawObject(ret[i].name) THEN rawConfig.vals[ret[i].name] ELSE NullV

\* C19 amended: only a preparer's entry carries the raw document's options
\* object; the entry of a plugin without a preparer always carries null.
C19_ConfiguredOnlyForPreparers ==
  (op = "createQuestions" /\ raised = "none") =>
     \A i \in 1..Len(ret) :
        ret[i].configured =
          IF "preparer" \in ModuleExports(ret[i].name) /\ RawObject(ret[i].name)
          THEN rawConfig.vals[ret[i].name]
          ELSE NullV

C19_Witness ==
  /\ op = "createQuestions"
  /\ raised = "none"
  /\ \E i \in 1..Len(ret) :
        /\ "preparer" \notin ModuleExports(ret[i].name)
        /\ RawObject(ret[i].name)
        /\ ret[i].configured = NullV

====
